---- MODULE Spec2Model ----
(***************************************************************************)
(* PID flight stabilization: the Number::clamp helper, the angle compute   *)
(* strategy (compute_angle), the PID accumulation engine it is plugged     *)
(* into, the three-axis stabilizer built from three engines and the        *)
(* cascade blend.  Scalars of the generic type T are modelled as integers. *)
(***************************************************************************)
EXTENDS Integers, Sequences, FiniteSets, TLC

VARIABLES
    pid,        \* the single-axis PidController: set_point, kp, ki, kd, integral
    data,       \* AngleControlData of the last PidController::compute call
    pre,        \* pid.integral as it was before the last compute call
    output,     \* value returned by the last compute call
    prevReset,  \* Some(integral discarded) when the compute call before the last one was a reset
    runN,       \* length of the current run of identical unclamped ticks started at integral 0
    probe,      \* last direct compute_angle call since the engine advanced: its data and result
    clampCall,  \* last direct Number::clamp call: receiver, min, max and result
    stabA,      \* three-axis stabilizer (run A): roll, pitch, yaw engines, i_limit, scale
    stabB,      \* three-axis stabilizer of a second run (run B)
    ctlA,       \* last control call of run A: per-axis ControlData, outputs, low_throttle
    ctlB,       \* last control call of run B (the two runs record the compared axis only)
    prevLow,    \* low_throttle of the control call before the last one
    axis,       \* the axis on which the two runs receive the same inputs
    blendCfg,   \* CascadeBlendingConfig<T, 2>: beta, k, limit
    blendCall   \* last cascade blend: outer output, inner output, pre, blended

vars == <<pid, data, pre, output, prevReset, runN, probe, clampCall,
          stabA, stabB, ctlA, ctlB, prevLow, axis, blendCfg, blendCall>>

pidVars == <<pid, data, pre, output, prevReset, runN, probe>>
stabVars == <<stabA, stabB, ctlA, ctlB, prevLow, axis>>
blendVars == <<blendCfg, blendCall>>

\* Optional values: None, or Some(x) with x == Get(o).
None == <<>>
Some(x) == <<x>>
Get(o) == o[1]

----------------------------------------------------------------------------
(* Bounds and input sets *)

MaxDt == 1
MaxRun == 3
MaxClampArg == 3

Measurements == {0, 10, 20}
Rates == {0, 7}
Dts == 0..MaxDt
Limits == {-20, 0, 20, 100}

Abs(x) == IF x < 0 THEN -x ELSE x

----------------------------------------------------------------------------
(* Number::clamp *)

clamp_max_first(self, min, max) ==
    IF max < self THEN max ELSE IF self < min THEN min ELSE self

clamp_no_upper(self, min, max) ==
    IF self < min THEN min ELSE self

clamp(self, min, max) ==
    IF self < min THEN min
    ELSE IF max < self THEN max
    ELSE self

----------------------------------------------------------------------------
(* AngleControlData and compute_angle *)

AngleControlData ==
    [measurement : Measurements, rate : Rates, dt : Dts,
     integral_limit : Limits, reset_integral : BOOLEAN]

\* Data the unit tests pass to compute_angle directly.
ProbeData ==
    { [measurement |-> m, rate |-> r, dt |-> 1, integral_limit |-> l, reset_integral |-> b] :
        m \in {0, 10}, r \in {7}, l \in {20}, b \in BOOLEAN }

\* The strategy receives the controller by mutable reference: the result
\* carries the controller as the call leaves it, and the returned triple.
compute_angle_stores(p, d) ==
    LET error == p.set_point - d.measurement
        integral == IF ~d.reset_integral
                    THEN clamp(p.integral + error * d.dt, -d.integral_limit, d.integral_limit)
                    ELSE 0
        derivative == d.rate
    IN  [pid |-> [p EXCEPT !.integral = integral], ret |-> <<error, integral, derivative>>]

compute_angle_no_reset(p, d) ==
    LET error == p.set_point - d.measurement
        integral == clamp(p.integral + error * d.dt, -d.integral_limit, d.integral_limit)
        derivative == d.rate
    IN  [pid |-> p, ret |-> <<error, integral, derivative>>]

compute_angle_hold(p, d) ==
    LET error == p.set_point - d.measurement
        integral == IF ~d.reset_integral
                    THEN clamp(p.integral + error * d.dt, -d.integral_limit, d.integral_limit)
                    ELSE p.integral
        derivative == d.rate
    IN  [pid |-> p, ret |-> <<error, integral, derivative>>]

compute_angle_neg_error(p, d) ==
    LET error == d.measurement - p.set_point
        integral == IF ~d.reset_integral
                    THEN clamp(p.integral + error * d.dt, -d.integral_limit, d.integral_limit)
                    ELSE 0
        derivative == d.rate
    IN  [pid |-> p, ret |-> <<error, integral, derivative>>]

compute_angle_no_dt(p, d) ==
    LET error == p.set_point - d.measurement
        integral == IF ~d.reset_integral
                    THEN clamp(p.integral + error, -d.integral_limit, d.integral_limit)
                    ELSE 0
        derivative == d.rate
    IN  [pid |-> p, ret |-> <<error, integral, derivative>>]

compute_angle(p, d) ==
    LET error == p.set_point - d.measurement
        integral == IF ~d.reset_integral
                    THEN clamp(p.integral + error * d.dt, -d.integral_limit, d.integral_limit)
                    ELSE 0
        derivative == d.rate
    IN  [pid |-> p, ret |-> <<error, integral, derivative>>]

----------------------------------------------------------------------------
(* PidController: construction and one tick *)

\* Configured controllers with the integral at zero: the set points and
\* gains of two unit tests, and one with three distinct gains.
PidConfigs ==
    { [set_point |-> 10, kp |-> 1, ki |-> 1, kd |-> 1, integral |-> 0],
      [set_point |-> 10, kp |-> 2, ki |-> 3, kd |-> 5, integral |-> 0],
      [set_point |-> 0,  kp |-> 1, ki |-> 0, kd |-> 0, integral |-> 0] }

\* PidController::compute: call the strategy, store its integral, weigh the terms.
compute(p, d) ==
    LET r == compute_angle(p, d)
        q == [r.pid EXCEPT !.integral = r.ret[2]]
    IN  [pid |-> q,
         output |-> q.kp * r.ret[1] + q.ki * r.ret[2] + q.kd * r.ret[3]]

\* The error of the last tick, as the caller sees it.
TickError == pid.set_point - Get(data).measurement

\* Whether tick number n of a run keeps the unclamped sum within the limit.
Unclamped(n, e, d) == Abs(n * e * d.dt) <= d.integral_limit

NextRun(p, d) ==
    LET e == p.set_point - d.measurement IN
    IF d.reset_integral THEN 0
    ELSE IF /\ runN > 0 /\ runN < MaxRun
            /\ data # None /\ Get(data).measurement = d.measurement /\ Get(data).dt = d.dt
            /\ Unclamped(runN + 1, e, d)
         THEN runN + 1
    ELSE IF p.integral = 0 /\ Unclamped(1, e, d) THEN 1
    ELSE 0

Tick(d) ==
    LET r == compute(pid, d) IN
    /\ pid' = r.pid
    /\ output' = r.output
    /\ data' = Some(d)
    /\ pre' = pid.integral
    /\ prevReset' = IF data # None /\ Get(data).reset_integral THEN Some(pre) ELSE None
    /\ runN' = NextRun(pid, d)
    /\ probe' = None
    /\ UNCHANGED <<clampCall, stabVars, blendVars>>

\* A direct call of the strategy, as the unit tests make it.
ComputeAngleCall(d) ==
    LET r == compute_angle(pid, d) IN
    /\ pid' = r.pid
    /\ probe' = Some([data |-> d, ret |-> r.ret])
    /\ UNCHANGED <<data, pre, output, prevReset, runN, clampCall, stabVars, blendVars>>

ClampCall(v, lo, hi) ==
    /\ clampCall' = Some([self |-> v, min |-> lo, max |-> hi, ret |-> clamp(v, lo, hi)])
    /\ UNCHANGED <<pidVars, stabVars, blendVars>>

----------------------------------------------------------------------------
(* FlightStabilizerConfig and the three-axis stabilizer *)

Axes == {"roll", "pitch", "yaw"}

\* FlightStabilizerConfig::new(): unit proportional gains, everything else zero or one.
FlightStabilizerConfig_new ==
    [kp |-> [a \in Axes |-> 1], ki |-> [a \in Axes |-> 0], kd |-> [a \in Axes |-> 0],
     set_point |-> [a \in Axes |-> 0], i_limit |-> 1, scale |-> 1]

\* A tuned configuration: distinct gains per axis, a shared integral limit and a scale.
TunedConfig ==
    [kp |-> [a \in Axes |-> CASE a = "roll" -> 1 [] a = "pitch" -> 2 [] OTHER -> 3],
     ki |-> [a \in Axes |-> CASE a = "roll" -> 1 [] a = "pitch" -> 3 [] OTHER -> 2],
     kd |-> [a \in Axes |-> CASE a = "roll" -> 1 [] a = "pitch" -> 0 [] OTHER -> 5],
     set_point |-> [a \in Axes |-> 0], i_limit |-> 10, scale |-> 2]

StabConfigs == {FlightStabilizerConfig_new, TunedConfig}

\* One engine per axis, initialised from the configuration.
with_config(c) ==
    [pids |-> [a \in Axes |->
                 [set_point |-> c.set_point[a], kp |-> c.kp[a], ki |-> c.ki[a],
                  kd |-> c.kd[a], integral |-> 0]],
     i_limit |-> c.i_limit, scale |-> c.scale]

\* Per-axis inputs of a control call: <<set point, attitude, gyro rate>>.
AxisInputs == { <<10, 0, 0>>, <<0, 10, 7>> }

ControlDts == {0, 1}

ControlInputs ==
    [axes : [Axes -> AxisInputs], dt : ControlDts, low_throttle : BOOLEAN]

\* The ControlData control() builds for one axis.
AxisData(st, in, a) ==
    [measurement |-> in.axes[a][2], rate |-> in.axes[a][3], dt |-> in.dt,
     integral_limit |-> st.i_limit, reset_integral |-> in.low_throttle]

\* The yaw engine is fed the roll attitude and rate.
control_yaw_reads_roll(st, in) ==
    LET src(a) == IF a = "yaw" THEN "roll" ELSE a
        dat == [a \in Axes |->
                  [AxisData(st, in, a) EXCEPT !.measurement = in.axes[src(a)][2],
                                              !.rate = in.axes[src(a)][3]]]
        tick == [a \in Axes |->
                   compute([st.pids[a] EXCEPT !.set_point = in.axes[a][1]], dat[a])]
    IN  [stab |-> [st EXCEPT !.pids = [a \in Axes |-> tick[a].pid]],
         call |-> [data |-> dat,
                   out |-> [a \in Axes |-> st.scale * tick[a].output],
                   low_throttle |-> in.low_throttle]]

\* FlightStabilizer::control for the angle stabilizer: per axis, set the
\* engine's set point, tick it with reset_integral = low_throttle, scale the output.
control(st, in) ==
    LET dat == [a \in Axes |-> AxisData(st, in, a)]
        tick == [a \in Axes |->
                   compute([st.pids[a] EXCEPT !.set_point = in.axes[a][1]], dat[a])]
    IN  [stab |-> [st EXCEPT !.pids = [a \in Axes |-> tick[a].pid]],
         call |-> [data |-> dat,
                   out |-> [a \in Axes |-> st.scale * tick[a].output],
                   low_throttle |-> in.low_throttle]]

Control(in) ==
    LET r == control(stabA, in) IN
    /\ stabA' = r.stab
    /\ ctlA' = Some(r.call)
    /\ prevLow' = IF ctlA = None THEN None ELSE Some(Get(ctlA).low_throttle)
    /\ UNCHANGED <<stabB, ctlB, axis, pidVars, clampCall, blendVars>>

\* What a control call shows of one axis: that axis's ControlData and output.
OnAxis(call, x) ==
    [data |-> [a \in {x} |-> call.data[a]], out |-> [a \in {x} |-> call.out[a]],
     low_throttle |-> call.low_throttle]

\* Two runs of the stabilizer receive one control call each; the calls agree
\* on dt, low_throttle and the inputs of the chosen axis, and run B gets
\* inputs of its own on the other two axes.
ControlPair(inA, others) ==
    LET inB == [inA EXCEPT !.axes = [a \in Axes |-> IF a = axis THEN inA.axes[a] ELSE others[a]]]
        rA == control(stabA, inA)
        rB == control(stabB, inB)
    IN  /\ stabA' = rA.stab
        /\ ctlA' = Some(OnAxis(rA.call, axis))
        /\ stabB' = rB.stab
        /\ ctlB' = Some(OnAxis(rB.call, axis))
        /\ prevLow' = IF ctlA = None THEN None ELSE Some(Get(ctlA).low_throttle)
        /\ UNCHANGED <<axis, pidVars, clampCall, blendVars>>

----------------------------------------------------------------------------
(* CascadeBlendingConfig and the cascade blend of one axis *)

MaxBlendIn == 3

\* CascadeBlendingConfig::new(): all weights, the gain and the limit are one.
CascadeBlendingConfig_new == [beta |-> <<1, 1>>, k |-> 1, limit |-> 1]

BlendConfigs ==
    {CascadeBlendingConfig_new} \cup
    [beta : {<<2, 3>>, <<-2, 1>>}, k : {1, 3}, limit : {-1, 0, 2, 4}]

blend(c, outer_output, inner_output) ==
    LET p == clamp(c.k * outer_output, -c.limit, c.limit)
    IN  [outer |-> outer_output, inner |-> inner_output, pre |-> p,
         blended |-> c.beta[1] * p + c.beta[2] * inner_output]

Blend(outer_output, inner_output) ==
    /\ blendCall' = Some(blend(blendCfg, outer_output, inner_output))
    /\ UNCHANGED <<blendCfg, pidVars, clampCall, stabVars>>

----------------------------------------------------------------------------
(* Specifications *)

InitIdle ==
    /\ data = None /\ pre = 0 /\ output = 0 /\ prevReset = None /\ runN = 0
    /\ probe = None /\ clampCall = None
    /\ ctlA = None /\ ctlB = None /\ prevLow = None
    /\ blendCall = None

\* The single-axis engine, ticked and probed.
Init ==
    /\ pid \in PidConfigs
    /\ stabA = with_config(FlightStabilizerConfig_new)
    /\ stabB = stabA
    /\ axis = "roll"
    /\ blendCfg = CascadeBlendingConfig_new
    /\ InitIdle

Next ==
    \/ \E d \in AngleControlData : Tick(d)
    \/ \E d \in ProbeData : ComputeAngleCall(d)

Spec == Init /\ [][Next]_vars

ClampArgs == (-MaxClampArg)..MaxClampArg

NextClamp == \E v \in ClampArgs, lo \in ClampArgs, hi \in ClampArgs : ClampCall(v, lo, hi)

SpecClamp == Init /\ [][NextClamp]_vars

\* The three-axis stabilizer.
InitStab ==
    /\ pid \in PidConfigs
    /\ stabA \in {with_config(c) : c \in StabConfigs}
    /\ stabB = stabA
    /\ axis = "roll"
    /\ blendCfg = CascadeBlendingConfig_new
    /\ InitIdle

NextStab == \E in \in ControlInputs : Control(in)

SpecStab == InitStab /\ [][NextStab]_vars

\* Two runs of the stabilizer under the same configuration.
InitPair ==
    /\ pid \in PidConfigs
    /\ stabA = with_config(TunedConfig)
    /\ stabB = stabA
    /\ axis \in Axes
    /\ blendCfg = CascadeBlendingConfig_new
    /\ InitIdle

\* The two runs are driven at the nominal dt.
PairInputs == { in \in ControlInputs : in.dt = 1 }

NextPair ==
    \E inA \in PairInputs, others \in [Axes \ {axis} -> AxisInputs] : ControlPair(inA, others)

SpecPair == InitPair /\ [][NextPair]_vars

\* The cascade blend.
InitBlend ==
    /\ pid \in PidConfigs
    /\ stabA = with_config(FlightStabilizerConfig_new)
    /\ stabB = stabA
    /\ axis = "roll"
    /\ blendCfg \in BlendConfigs
    /\ InitIdle

BlendInputs == (-MaxBlendIn)..MaxBlendIn

NextBlend == \E o \in BlendInputs, i \in BlendInputs : Blend(o, i)

SpecBlend == InitBlend /\ [][NextBlend]_vars

----------------------------------------------------------------------------
(* Properties *)

\* C1: after a tick with reset_integral = false and integral_limit >= 0 the
\* persisted integral lies in [-integral_limit, integral_limit] of that
\* tick's data, whatever it was before the tick.
C1_IntegralWithinLimit ==
    (data # None /\ ~Get(data).reset_integral /\ Get(data).integral_limit >= 0) =>
        /\ -Get(data).integral_limit <= pid.integral
        /\ pid.integral <= Get(data).integral_limit

\* An integral accumulated under a larger limit is cut back to the smaller one.
C1_Witness ==
    /\ data # None /\ ~Get(data).reset_integral
    /\ Get(data).integral_limit = 20
    /\ pre > 20
    /\ pid.integral = 20

\* C2: a tick with reset_integral = true leaves the persisted integral at 0,
\* and the strategy called with reset_integral = true returns 0 as its
\* integral term, whatever the inputs and the prior integral.
C2_ResetYieldsZero ==
    /\ (data # None /\ Get(data).reset_integral) => pid.integral = 0
    /\ (probe # None /\ Get(probe).data.reset_integral) => Get(probe).ret[2] = 0

C2_Witness ==
    /\ data # None /\ Get(data).reset_integral /\ pre # 0 /\ pid.integral = 0
    /\ probe # None /\ Get(probe).data.reset_integral /\ Get(probe).ret[2] = 0

\* C3: a tick stores the strategy's integral and returns
\* kp * error + ki * integral + kd * derivative with error = set_point -
\* measurement, derivative = rate and the newly stored integral; in the
\* scenario set_point=10, measurement=0, rate=0, dt=1, limit=100, kp=ki=1 the
\* first tick outputs 20 and the second has integral 20 and outputs 30.
ScenarioData ==
    [measurement |-> 0, rate |-> 0, dt |-> 1, integral_limit |-> 100, reset_integral |-> FALSE]

C3_TickOutput ==
    data # None =>
        LET d == Get(data)
            error == pid.set_point - d.measurement
            stored == IF d.reset_integral THEN 0
                      ELSE clamp(pre + error * d.dt, -d.integral_limit, d.integral_limit)
        IN  /\ pid.integral = stored
            /\ output = pid.kp * error + pid.ki * pid.integral + pid.kd * d.rate
            /\ (pid.set_point = 10 /\ pid.kp = 1 /\ pid.ki = 1 /\ d = ScenarioData) =>
                  /\ pre = 0 => output = 20
                  /\ pre = 10 => (pid.integral = 20 /\ output = 30)

C3_Witness ==
    /\ data = Some(ScenarioData)
    /\ pid.set_point = 10 /\ pid.kp = 1 /\ pid.ki = 1
    /\ pre = 10 /\ pid.integral = 20 /\ output = 30

\* C4: a tick without reset that follows a reset tick accumulates from 0: the
\* persisted integral is clamp(error * dt, -integral_limit, integral_limit)
\* of that tick, independent of the integral the reset discarded.
C4_ResumeFromZero ==
    (data # None /\ ~Get(data).reset_integral /\ prevReset # None) =>
        pid.integral = clamp(TickError * Get(data).dt,
                             -Get(data).integral_limit, Get(data).integral_limit)

C4_Witness ==
    /\ data # None /\ ~Get(data).reset_integral
    /\ prevReset # None /\ Get(prevReset) = 20
    /\ pid.integral = 10

\* C5: clamp returns min when value < min, else max when max < value, else
\* the value; value < min takes precedence when both tests hold.
C5_Clamp ==
    clampCall # None =>
        LET c == Get(clampCall) IN
        /\ c.self < c.min => c.ret = c.min
        /\ (~(c.self < c.min) /\ c.max < c.self) => c.ret = c.max
        /\ (~(c.self < c.min) /\ ~(c.max < c.self)) => c.ret = c.self

C5_Witness ==
    /\ clampCall # None
    /\ Get(clampCall).self < Get(clampCall).min
    /\ Get(clampCall).max < Get(clampCall).self
    /\ Get(clampCall).ret = Get(clampCall).min

\* C6: on every control call with low_throttle = true, also one that follows
\* another such call, every axis is ticked with reset_integral = true and all
\* three persisted integrals are 0 afterwards; with low_throttle = false every
\* axis is ticked with reset_integral = false.
C6_LowThrottleLevelTriggered ==
    ctlA # None =>
        \A a \in Axes :
            /\ Get(ctlA).data[a].reset_integral = Get(ctlA).low_throttle
            /\ Get(ctlA).low_throttle => stabA.pids[a].integral = 0

\* A second low-throttle call in a row, with an error that would accumulate.
C6_Witness ==
    /\ ctlA # None /\ Get(ctlA).low_throttle /\ prevLow = Some(TRUE)
    /\ \A a \in Axes :
        /\ Get(ctlA).data[a].reset_integral
        /\ Get(ctlA).data[a].dt = 1
        /\ stabA.pids[a].set_point # Get(ctlA).data[a].measurement
        /\ stabA.pids[a].integral = 0

\* C7: two runs that agree on dt, low_throttle, the configuration and one
\* axis's inputs on every call have equal output and persisted integral on
\* that axis after every call, whatever the other axes receive.
C7_AxisIndependence ==
    (ctlA # None /\ ctlB # None) =>
        /\ stabA.pids[axis] = stabB.pids[axis]
        /\ Get(ctlA).out[axis] = Get(ctlB).out[axis]
        /\ Get(ctlA).data[axis] = Get(ctlB).data[axis]

C7_Witness ==
    /\ ctlA # None /\ ctlB # None
    /\ stabA.pids[axis].integral # 0
    /\ Get(ctlA).out[axis] = Get(ctlB).out[axis]
    /\ \A a \in Axes \ {axis} :
        /\ stabA.pids[a].integral # stabB.pids[a].integral
        /\ stabA.pids[a].set_point # stabB.pids[a].set_point

\* C8: the blend is beta[0] * clamp(k * outer, -limit, limit) + beta[1] * inner;
\* for limit >= 0 the outer loop contributes at most |beta[0]| * limit in
\* magnitude, and the inner output enters unsaturated.
C8_Blend ==
    blendCall # None =>
        LET b == Get(blendCall)
            c == blendCfg
            scaled == c.k * b.outer
        IN  /\ scaled < -c.limit => b.pre = -c.limit
            /\ (~(scaled < -c.limit) /\ c.limit < scaled) => b.pre = c.limit
            /\ (~(scaled < -c.limit) /\ ~(c.limit < scaled)) => b.pre = scaled
            /\ b.blended = c.beta[1] * b.pre + c.beta[2] * b.inner
            /\ c.limit >= 0 =>
                 Abs(b.blended - c.beta[2] * b.inner) <= Abs(c.beta[1]) * c.limit

\* The outer term saturates while an inner output beyond the limit passes through.
C8_Witness ==
    /\ blendCall # None
    /\ blendCfg.limit = 2 /\ blendCfg.k = 3 /\ blendCfg.beta = <<-2, 1>>
    /\ Get(blendCall).outer = 3 /\ Get(blendCall).inner = -3
    /\ Get(blendCall).pre = 2
    /\ Get(blendCall).blended = -7

\* C9: a direct call of compute_angle leaves the controller unchanged, and a
\* second call with the same controller and data returns the same triple.
C9_StrategyIsPure ==
    [][probe' # None =>
          /\ pid' = pid
          /\ compute_angle(pid', Get(probe').data).ret = Get(probe').ret]_vars

C9_Witness ==
    /\ probe # None
    /\ pid.integral = 10
    /\ ~Get(probe).data.reset_integral
    /\ Get(probe).ret = <<10, 20, 7>>

\* C10: N consecutive ticks without reset, from a persisted integral of 0,
\* with constant error and dt and the running sum within the limit at each
\* of them, leave the persisted integral at N * error * dt.
C10_AccumulationLaw ==
    runN > 0 => pid.integral = runN * TickError * Get(data).dt

C10_Witness ==
    /\ runN = 3
    /\ TickError = -10 /\ Get(data).dt = 1
    /\ pid.integral = -30

====
